---- MODULE Spec2Model ----
(***************************************************************************)
(* A model of tree/main.go: the resource catalog built by findAPIs, the    *)
(* kind resolution of run (overrideType, then the alias lookup), the       *)
(* concurrent fleet fetch getAllResources with the paginated queryAPI, and *)
(* the ownership directory built by newObjectDirectory.                    *)
(*                                                                         *)
(* A Go string is modelled as a sequence of atoms: an atom is a run of     *)
(* characters that the model never splits ("service", "v1", ".", "/").     *)
(* Concatenation is \o, the empty string is <<>>, and strings.ToLower acts *)
(* atom by atom.                                                           *)
(***************************************************************************)
EXTENDS Integers, Sequences, FiniteSets, TLC

VARIABLES
    \* ---- findAPIs and the kind resolution of run
    resList,    \* the discovery response: a sequence of API groups
    gi,         \* findAPIs: index of the group the outer loop is at
    rm,         \* findAPIs: the resourceMap under construction [list, m]
    kind,       \* run: the kind string typed by the user
    result,     \* run: the outcome of findAPIs + resolution
    rpc,        \* run: position in lines 48-69
    \* ---- getAllResources, queryAPI and the tail of run
    apis,       \* getAllResources: the apis argument (sequence of resource types)
    pages,      \* the server: pages[i] is the sequence of pages of apis[i]
    failAt,     \* the server: failAt[i] = n > 0 makes the n-th list request of apis[i] fail
    li,         \* getAllResources: index of the dispatch loop
    wg,         \* getAllResources: the WaitGroup counter
    mu,         \* getAllResources: the Mutex, 0 when free, else the holder
    out,        \* getAllResources: the shared result slice
    errResult,  \* getAllResources: the shared error interface value [tab, data]
    wpc,        \* each goroutine's position
    qout,       \* queryAPI: the local out of each goroutine
    next,       \* queryAPI: the local continue cursor of each goroutine
    reqs,       \* the list requests each goroutine issued, in order
    qret,       \* queryAPI: the value returned to each goroutine [v, err]
    tmp,        \* append: the slice header a goroutine loaded from out
    mpc,        \* run/getAllResources: position of the calling goroutine
    ret,        \* the value getAllResources returned [out, err]
    runret,     \* the value run returned
    \* ---- newObjectDirectory
    objs,       \* the objs argument
    oi,         \* index of the range loop
    dir,        \* the objectDirectory v under construction [items, ownership]
    dpc         \* position in newObjectDirectory

rvars == <<resList, gi, rm, kind, result, rpc>>
fvars == <<apis, pages, failAt, li, wg, mu, out, errResult, wpc, qout, next,
           reqs, qret, tmp, mpc, ret, runret>>
dvars == <<objs, oi, dir, dpc>>
vars == <<rvars, fvars, dvars>>

\* ------------------------------------------------------------------------
\* Bounds of the model
\* ------------------------------------------------------------------------
MaxGroups == 3

\* ------------------------------------------------------------------------
\* Strings
\* ------------------------------------------------------------------------
Str(a) == <<a>>
Dot == <<".">>

\* The lower-case form of one atom (strings.ToLower on its characters).
LowerAtom(a) ==
    CASE a = "Service" -> "service"
      [] a = "SERVICE" -> "service"
      [] a = "SVC" -> "svc"
      [] a = "Deployment" -> "deployment"
      [] a = "Deployments" -> "deployments"
      [] a = "Endpoints" -> "endpoints"
      [] a = "Event" -> "event"
      [] a = "Binding" -> "binding"
      [] a = "Widget" -> "widget"
      [] a = "WD" -> "wd"
      [] a = "Example" -> "example"
      [] a = "V1" -> "v1"
      [] OTHER -> a

\* The upper-case spelling of an atom used to type a name in another letter case.
UpperAtom(a) ==
    CASE a = "service" -> "SERVICE"
      [] a = "svc" -> "SVC"
      [] a = "wd" -> "WD"
      [] a = "v1" -> "V1"
      [] a = "widget" -> "Widget"
      [] a = "example" -> "Example"
      [] a = "deployments" -> "Deployments"
      [] a = "event" -> "Event"
      [] a = "endpoints" -> "Endpoints"
      [] OTHER -> a

ToLower(s) == [i \in DOMAIN s |-> LowerAtom(s[i])]
ToUpper(s) == [i \in DOMAIN s |-> UpperAtom(s[i])]

RECURSIVE Join(_, _)
Join(parts, sep) ==
    IF Len(parts) = 0 THEN <<>>
    ELSE IF Len(parts) = 1 THEN parts[1]
    ELSE parts[1] \o sep \o Join(Tail(parts), sep)

contains(v, s) == \E i \in DOMAIN v : v[i] = s

\* ------------------------------------------------------------------------
\* The discovery response
\* ------------------------------------------------------------------------
List == Str("list")
Res(name, knd, singular, short, namespaced, verbs) ==
    [Name |-> name, Kind |-> knd, SingularName |-> singular,
     ShortNames |-> short, Namespaced |-> namespaced, Verbs |-> verbs]

CoreGroup ==
    [GroupVersion |-> Str("v1"),
     APIResources |-> <<
        Res(Str("services"), Str("Service"), <<>>, <<Str("svc")>>, TRUE, <<Str("get"), List>>),
        Res(Str("endpoints"), Str("Endpoints"), <<>>, <<Str("ep")>>, TRUE, <<List>>),
        Res(Str("events"), Str("Event"), <<>>, <<Str("ev")>>, TRUE, <<List>>),
        Res(Str("bindings"), Str("Binding"), <<>>, <<>>, TRUE, <<Str("create")>>) >>]
KnativeGroup ==
    [GroupVersion |-> <<"knative", ".", "dev", "/", "v1">>,
     APIResources |-> <<
        Res(Str("services"), Str("Service"), Str("service"),
            <<Str("kservice"), Str("ksvc")>>, TRUE, <<List>>) >>]
AppsGroup ==
    [GroupVersion |-> <<"apps", "/", "v1">>,
     APIResources |-> <<
        Res(Str("deployments"), Str("Deployment"), <<>>, <<Str("deploy")>>, TRUE, <<List>>) >>]
ExtensionsGroup ==
    [GroupVersion |-> <<"extensions", "/", "v1beta1">>,
     APIResources |-> <<
        Res(Str("deployments"), Str("Deployment"), <<>>, <<Str("deploy")>>, TRUE, <<List>>) >>]
EventsGroup ==
    [GroupVersion |-> <<"events", ".", "io", "/", "v1">>,
     APIResources |-> <<
        Res(Str("events"), Str("Event"), Str("event"), <<Str("ev")>>, TRUE, <<List>>) >>]
\* An aggregated API whose declared names are not all lower case.
UpperGroup ==
    [GroupVersion |-> <<"Example", ".", "io", "/", "v1">>,
     APIResources |-> <<
        Res(Str("widgets"), Str("Widget"), <<>>, <<Str("WD")>>, FALSE, <<List>>) >>]
BadGroup ==
    [GroupVersion |-> <<"a", "/", "b", "/", "c">>,
     APIResources |-> <<
        Res(Str("things"), Str("Thing"), Str("thing"), <<>>, TRUE, <<List>>) >>]

Groups == {CoreGroup, KnativeGroup, AppsGroup, ExtensionsGroup, EventsGroup,
           UpperGroup, BadGroup}

\* The sequences without repetition, of length at most n, over S.
RECURSIVE SeqsNoRep(_, _)
SeqsNoRep(S, n) ==
    IF n = 0 THEN {<<>>}
    ELSE {<<>>} \cup UNION {{<<x>> \o s : s \in SeqsNoRep(S \ {x}, n - 1)} : x \in S}

\* The kind strings a user types.
Kinds ==
    {Str("svc"), Str("SVC"), Str("service"), Str("Service"), Str("services"),
     Str("deploy"), Str("deployment"), Str("Deployments"),
     Str("endpoints"), Str("ep"), Str("events"), Str("ev"), Str("kservice"),
     Str("widget"), Str("wd"), Str("WD"), Str("nosuch"),
     <<"service", ".", "knative", ".", "dev">>,
     <<"events", ".", "v1", ".", "events", ".", "io">>,
     <<"service", ".", "v1", ".">>}

\* ------------------------------------------------------------------------
\* apiResource and its names
\* ------------------------------------------------------------------------
NoGV == [Group |-> <<>>, Version |-> <<>>]
NoAPI == [r |-> Res(<<>>, <<>>, <<>>, <<>>, FALSE, <<>>), gv |-> NoGV]

Slashes(s) == Cardinality({i \in DOMAIN s : s[i] = "/"})
SlashAt(s) == CHOOSE i \in DOMAIN s : s[i] = "/"

\* schema.ParseGroupVersion: [ok, gv].
ParseGroupVersion(s) ==
    IF Len(s) = 0 \/ s = <<"/">> THEN [ok |-> TRUE, gv |-> NoGV]
    ELSE IF Slashes(s) = 0 THEN [ok |-> TRUE, gv |-> [Group |-> <<>>, Version |-> s]]
    ELSE IF Slashes(s) = 1
         THEN [ok |-> TRUE,
               gv |-> [Group |-> SubSeq(s, 1, SlashAt(s) - 1),
                       Version |-> SubSeq(s, SlashAt(s) + 1, Len(s))]]
    ELSE [ok |-> FALSE, gv |-> NoGV]

GroupVersionResource(a) ==
    [Group |-> a.gv.Group, Version |-> a.gv.Version, Resource |-> a.r.Name]

fullAPIName(a) ==
    Join(<<GroupVersionResource(a).Resource, GroupVersionResource(a).Version,
           GroupVersionResource(a).Group>>, Dot)

\* The three keys apiNames appends for one base name n.
NameForms(n, gv) ==
    << n, Join(<<n, gv.Group>>, Dot), Join(<<n, gv.Version, gv.Group>>, Dot) >>

RECURSIVE FormsOf(_, _)
FormsOf(names, gv) ==
    IF names = <<>> THEN <<>>
    ELSE NameForms(Head(names), gv) \o FormsOf(Tail(names), gv)

apiNames(a, gv) ==
    LET singularName == IF a.SingularName = <<>> THEN ToLower(a.Kind)
                        ELSE a.SingularName
        pluralName == a.Name
        names == <<singularName, pluralName>> \o a.ShortNames
    IN  FormsOf(names, gv)

\* ------------------------------------------------------------------------
\* resourceMap
\* ------------------------------------------------------------------------
EmptyMap == [list |-> <<>>, m |-> <<>>]

MapGet(m, k) == IF k \in DOMAIN m THEN m[k] ELSE <<>>

lookup(r, s) == MapGet(r.m, ToLower(s))

resources(r) == r.list

\* rm.m[name] = append(rm.m[name], v)
MapAppend(m, name, v) ==
    [k \in DOMAIN m \cup {name} |-> IF k = name THEN Append(MapGet(m, name), v) ELSE m[k]]

RECURSIVE RegisterNames(_, _, _)
RegisterNames(m, names, v) ==
    IF names = <<>> THEN m
    ELSE RegisterNames(MapAppend(m, Head(names), v), Tail(names), v)

\* One iteration of the inner loop of findAPIs.
RegisterResource(r, apiRes, gv) ==
    IF ~contains(apiRes.Verbs, List) THEN r
    ELSE LET v == [gv |-> gv, r |-> apiRes]
         IN  [list |-> Append(r.list, v),
              m |-> RegisterNames(r.m, apiNames(apiRes, gv), v)]

RECURSIVE RegisterGroup(_, _, _)
RegisterGroup(r, rs, gv) ==
    IF rs = <<>> THEN r
    ELSE RegisterGroup(RegisterResource(r, Head(rs), gv), Tail(rs), gv)

\* ------------------------------------------------------------------------
\* Kind resolution
\* ------------------------------------------------------------------------
ServiceV1 == <<"service", ".", "v1", ".">>
DeploymentV1Apps == <<"deployment", ".", "v1", ".", "apps">>
DeploymentV1beta1Extensions == <<"deployment", ".", "v1beta1", ".", "extensions">>

Override(api, ok) == [api |-> api, ok |-> ok]

\* overrideType with the override looked up by the bare name instead of the
\* qualified one: the first type discovered under that name wins.
overrideTypeBare(knd, v) ==
    LET k == ToLower(knd)
    IN  IF k \in {Str("svc"), Str("service"), Str("services")}
        THEN IF Len(lookup(v, Str("service"))) # 0
             THEN Override(lookup(v, Str("service"))[1], TRUE)
             ELSE Override(NoAPI, FALSE)
        ELSE IF k \in {Str("deploy"), Str("deployment"), Str("deployments")}
        THEN IF Len(lookup(v, Str("deployment"))) # 0
             THEN Override(lookup(v, Str("deployment"))[1], TRUE)
             ELSE Override(NoAPI, FALSE)
        ELSE Override(NoAPI, FALSE)

overrideType(knd, v) ==
    LET k == ToLower(knd)
    IN  IF k \in {Str("svc"), Str("service"), Str("services")}
        THEN IF Len(lookup(v, ServiceV1)) # 0
             THEN Override(lookup(v, ServiceV1)[1], TRUE)
             ELSE Override(NoAPI, FALSE)
        ELSE IF k \in {Str("deploy"), Str("deployment"), Str("deployments")}
        THEN IF Len(lookup(v, DeploymentV1Apps)) # 0
             THEN Override(lookup(v, DeploymentV1Apps)[1], TRUE)
             ELSE IF Len(lookup(v, DeploymentV1beta1Extensions)) # 0
             THEN Override(lookup(v, DeploymentV1beta1Extensions)[1], TRUE)
             ELSE Override(NoAPI, FALSE)
        ELSE Override(NoAPI, FALSE)

Outcome(status, knd, api, names) ==
    [status |-> status, kind |-> knd, api |-> api, names |-> names]
NoResult == Outcome("none", <<>>, NoAPI, <<>>)

\* run, lines 53-69: the resource type, or the error returned.
Resolve(knd, v) ==
    IF overrideType(knd, v).ok
    THEN Outcome("ok", knd, overrideType(knd, v).api, <<>>)
    ELSE LET apiResults == lookup(v, knd)
         IN  IF Len(apiResults) = 0
             THEN Outcome("notfound", knd, NoAPI, <<>>)
             ELSE IF Len(apiResults) > 1
             THEN Outcome("ambiguous", knd, NoAPI,
                          [i \in DOMAIN apiResults |-> fullAPIName(apiResults[i])])
             ELSE Outcome("ok", knd, apiResults[1], <<>>)

\* ------------------------------------------------------------------------
\* Idle values of the parts a specification does not run
\* ------------------------------------------------------------------------
NilErr == [tab |-> "nil", data |-> "nil"]
EmptyDir == [items |-> <<>>, ownership |-> <<>>]

RIdle ==
    /\ resList = <<>> /\ gi = 0 /\ rm = EmptyMap /\ kind = <<>>
    /\ result = NoResult /\ rpc = "idle"
FIdle ==
    /\ apis = <<>> /\ pages = <<>> /\ failAt = <<>> /\ li = 0 /\ wg = 0 /\ mu = 0
    /\ out = <<>> /\ errResult = NilErr /\ wpc = <<>> /\ qout = <<>> /\ next = <<>>
    /\ reqs = <<>> /\ qret = <<>> /\ tmp = <<>> /\ mpc = "idle"
    /\ ret = [out |-> <<>>, err |-> NilErr] /\ runret = "none"
DIdle ==
    /\ objs = <<>> /\ oi = 0 /\ dir = EmptyDir /\ dpc = "idle"

\* ------------------------------------------------------------------------
\* findAPIs and the resolution, as steps of run
\* ------------------------------------------------------------------------
InitResolve ==
    /\ resList \in SeqsNoRep(Groups, MaxGroups)
    /\ gi = 1 /\ rm = EmptyMap /\ kind = <<>> /\ result = NoResult
    /\ rpc = "findAPIs"
    /\ FIdle /\ DIdle

\* findAPIs, lines 240-243: the group/version string does not parse.
FindAPIsParseError ==
    /\ rpc = "findAPIs" /\ gi <= Len(resList)
    /\ ~ParseGroupVersion(resList[gi].GroupVersion).ok
    /\ result' = Outcome("parseerror", resList[gi].GroupVersion, NoAPI, <<>>)
    /\ rm' = EmptyMap
    /\ rpc' = "returned"
    /\ UNCHANGED <<resList, gi, kind, fvars, dvars>>

\* findAPIs, lines 239-259: one iteration of the loop over the groups.
FindAPIsGroup ==
    /\ rpc = "findAPIs" /\ gi <= Len(resList)
    /\ ParseGroupVersion(resList[gi].GroupVersion).ok
    /\ rm' = RegisterGroup(rm, resList[gi].APIResources,
                           ParseGroupVersion(resList[gi].GroupVersion).gv)
    /\ gi' = gi + 1
    /\ UNCHANGED <<resList, kind, result, rpc, fvars, dvars>>

\* findAPIs, line 260, and run, lines 48-51.
FindAPIsReturn ==
    /\ rpc = "findAPIs" /\ gi > Len(resList)
    /\ rpc' = "resolve"
    /\ UNCHANGED <<resList, gi, rm, kind, result, fvars, dvars>>

\* run, lines 53-69.
ResolveKind ==
    /\ rpc = "resolve"
    /\ \E k \in Kinds :
         /\ kind' = k
         /\ result' = Resolve(k, rm)
    /\ rpc' = "returned"
    /\ UNCHANGED <<resList, gi, rm, fvars, dvars>>

NextResolve ==
    \/ FindAPIsParseError
    \/ FindAPIsGroup
    \/ FindAPIsReturn
    \/ ResolveKind

SpecResolve == InitResolve /\ [][NextResolve]_vars

\* ------------------------------------------------------------------------
\* Properties of the catalog and of the resolution
\* ------------------------------------------------------------------------
Range(s) == {s[i] : i \in DOMAIN s}

\* findAPIs has returned the catalog rm to run.
CatalogBuilt == rpc = "resolve"
\* run has resolved kind against the catalog rm.
Resolved == rpc = "returned" /\ result.status \in {"ok", "notfound", "ambiguous"}

\* The letter cases an alias is typed in.
Spellings(alias) == {alias, ToLower(alias), ToUpper(alias)}

\* C7: every alias that apiNames generates for a list-capable descriptor of the
\* discovery response, looked up in the catalog in any letter case, returns a
\* list that contains the resource type the alias was generated for.
C7_AliasRoundTrip ==
    CatalogBuilt =>
        \A i \in DOMAIN rm.list :
            \A alias \in Range(apiNames(rm.list[i].r, rm.list[i].gv)) :
                \A q \in Spellings(alias) :
                    contains(lookup(rm, q), rm.list[i])

\* The distinct resource types of the catalog that registered the key k.
Registered(k) ==
    {t \in Range(rm.list) : k \in Range(apiNames(t.r, t.gv))}

\* C8: when no override fires, the outcome is decided by the set of distinct
\* resource types that registered the lower-cased kind: none gives the
\* not-found error naming the input, one gives that type (also when it
\* registered the alias more than once), several give the ambiguity error that
\* lists exactly those types, each once, as resource.version.group.
C8_GenericOutcome ==
    (Resolved /\ ~overrideType(kind, rm).ok) =>
        LET T == Registered(ToLower(kind))
        IN  /\ T = {} => (result.status = "notfound" /\ result.kind = kind)
            /\ Cardinality(T) = 1 => (result.status = "ok" /\ result.api \in T)
            /\ Cardinality(T) > 1 =>
                    /\ result.status = "ambiguous"
                    /\ Len(result.names) = Cardinality(T)
                    /\ Range(result.names) = {fullAPIName(t) : t \in T}

IsCoreService(t) ==
    t.gv = [Group |-> <<>>, Version |-> Str("v1")] /\ t.r.Name = Str("services")
IsAppsDeployment(t) ==
    t.gv = [Group |-> Str("apps"), Version |-> Str("v1")] /\ t.r.Name = Str("deployments")
IsExtDeployment(t) ==
    /\ t.gv = [Group |-> Str("extensions"), Version |-> Str("v1beta1")]
    /\ t.r.Name = Str("deployments")
Holds(P(_)) == \E t \in Range(rm.list) : P(t)
ServiceKind == ToLower(kind) \in {Str("svc"), Str("service"), Str("services")}
DeployKind == ToLower(kind) \in {Str("deploy"), Str("deployment"), Str("deployments")}

\* The outcome of the alias lookup alone, by the number of entries it returns.
GenericOutcome ==
    LET n == Len(MapGet(rm.m, ToLower(kind)))
    IN  /\ n = 0 => result.status = "notfound"
        /\ n = 1 => (result.status = "ok" /\ result.api = MapGet(rm.m, ToLower(kind))[1])
        /\ n > 1 => result.status = "ambiguous"

\* C9: for svc/service/services in any letter case the core v1 Service is
\* returned whenever the catalog holds it, whatever the discovery order; for
\* deploy/deployment/deployments the apps/v1 Deployment when present, else the
\* extensions/v1beta1 one when present; only with no override target in the
\* catalog is the outcome that of the generic alias lookup.
C9_OverridePrecedence ==
    Resolved =>
        /\ (ServiceKind /\ Holds(IsCoreService)) =>
                (result.status = "ok" /\ IsCoreService(result.api))
        /\ (DeployKind /\ Holds(IsAppsDeployment)) =>
                (result.status = "ok" /\ IsAppsDeployment(result.api))
        /\ (DeployKind /\ ~Holds(IsAppsDeployment) /\ Holds(IsExtDeployment)) =>
                (result.status = "ok" /\ IsExtDeployment(result.api))
        /\ (ServiceKind /\ ~Holds(IsCoreService)) => GenericOutcome
        /\ (DeployKind /\ ~Holds(IsAppsDeployment) /\ ~Holds(IsExtDeployment)) =>
                GenericOutcome

\* The extension-group Service was discovered before the core one, the user
\* typed the kind in upper case, and the core Service was returned.
C9_Witness ==
    /\ Resolved /\ kind = Str("SVC")
    /\ Len(rm.list) >= 2 /\ ~IsCoreService(rm.list[1])
    /\ rm.list[1].r.Name = Str("services")
    /\ Holds(IsCoreService)
    /\ result.status = "ok" /\ IsCoreService(result.api)

\* ------------------------------------------------------------------------
\* newObjectDirectory
\* ------------------------------------------------------------------------
Obj(uid, owners, api) == [uid |-> uid, owners |-> owners, api |-> api]

\* The inner map is made anew on every use: the owner keeps its last child only.
AddChildReplace(ownership, owner, uid) ==
    [k \in DOMAIN ownership \cup {owner} |->
        IF k = owner THEN {uid} ELSE ownership[k]]

\* v.ownership[owner][uid] = true, the inner map made on first use.
AddChild(ownership, owner, uid) ==
    [k \in DOMAIN ownership \cup {owner} |->
        IF k = owner
        THEN (IF owner \in DOMAIN ownership THEN ownership[owner] ELSE {}) \cup {uid}
        ELSE ownership[k]]

RECURSIVE AddOwners(_, _, _)
AddOwners(ownership, owners, uid) ==
    IF owners = <<>> THEN ownership
    ELSE AddOwners(AddChild(ownership, Head(owners), uid), Tail(owners), uid)

\* One iteration of the range loop of newObjectDirectory.
DirStep(v, obj) ==
    [items |-> [k \in DOMAIN v.items \cup {obj.uid} |->
                    IF k = obj.uid THEN obj ELSE v.items[k]],
     ownership |-> AddOwners(v.ownership, obj.owners, obj.uid)]

RECURSIVE DirFold(_, _)
DirFold(v, os) ==
    IF os = <<>> THEN v ELSE DirFold(DirStep(v, Head(os)), Tail(os))

newObjectDirectory(os) == DirFold(EmptyDir, os)

\* len(objs.ownership[uid]), the children of uid.
childrenOf(v, uid) == IF uid \in DOMAIN v.ownership THEN v.ownership[uid] ELSE {}

\* ------------------------------------------------------------------------
\* The server behind the list call
\* ------------------------------------------------------------------------
MaxTypes == 2
MaxPages == 3
PageLimit == 250

Types == 1..MaxTypes

\* The resource type at position i of the apis argument.
FleetType(i, namespaced) ==
    [r |-> Res(<<"kind", i>>, <<"Kind", i>>, <<>>, <<>>, namespaced, <<List>>),
     gv |-> [Group |-> <<"group", i>>, Version |-> Str("v1")]]

ItemUID(i, p, j) == 100 * i + 10 * p + j
\* The objects on page p of type i: pages of zero, one and two objects occur,
\* an empty page may come first, last or between two others.
PageSize(i, p) == (i + p) % 3
PageItems(i, p) ==
    [j \in 1..PageSize(i, p) |->
        Obj(ItemUID(i, p, j),
            IF j > 1 THEN <<ItemUID(i, p, 1)>>
            ELSE IF i > 1 THEN <<ItemUID(1, 1, 1), ItemUID(1, 1, 2)>> ELSE <<>>,
            i)]

\* The opaque continue token the server returns with page p when more follow.
Cursor(p) == <<"C", p>>
NoCursor == <<>>
\* The page a request with continue token c asks for.
PageOf(c) == IF c = NoCursor THEN 1 ELSE c[2] + 1
\* The continue token returned with page p of a type that has k pages.
Continue(p, k) == IF p < k THEN Cursor(p) ELSE NoCursor

ListOptions(c) == [Limit |-> PageLimit, Continue |-> c]

\* ------------------------------------------------------------------------
\* queryAPI
\* ------------------------------------------------------------------------
NilSlice == <<>>
TransportError(i, n) == [type |-> i, request |-> n]

\* fmt.Errorf("listing resources failed (%s): %w", api.GroupVersionResource(), err)
WrapListError(api, cause) ==
    [tab |-> "*fmt.wrapError",
     data |-> [gvr |-> GroupVersionResource(api), cause |-> cause]]

\* queryAPI returning the error of request n of type i without wrapping it in
\* a non-nil error value.
ListErrSwallow(i, n) == [v |-> NilSlice, err |-> NilErr]

\* queryAPI returning the pages fetched so far along with the error.
ListErrPartial(i, n) ==
    [v |-> qout[i], err |-> WrapListError(apis[i], TransportError(i, n))]

\* queryAPI, lines 186-188: what is returned when request n of type i fails.
ListErrReturn(i, n) ==
    [v |-> NilSlice, err |-> WrapListError(apis[i], TransportError(i, n))]

\* out = resp.Items: the page replaces what was fetched before.
AppendItemsReplace(o, items) == items

\* queryAPI, line 189: out = append(out, resp.Items...)
AppendItems(o, items) == o \o items

\* err != nil on an interface value.
NotNil(e) == e.tab # "nil"

\* ------------------------------------------------------------------------
\* getAllResources and the tail of run
\* ------------------------------------------------------------------------
\* A Lock that does not exclude: the append runs unguarded.
CanLockAlways(i) == TRUE
\* sync.Mutex.Lock returns when the mutex is free.
CanLock(i) == mu = 0
\* A Wait that returns without joining the goroutines.
WaitReturnsAtOnce == TRUE
\* sync.WaitGroup.Wait returns when the counter is zero.
WaitReturns == wg = 0

InitFetch ==
    /\ \E ns \in [Types -> BOOLEAN] :
         apis = [i \in Types |-> FleetType(i, ns[i])]
    /\ pages \in [Types -> 1..MaxPages]
    /\ failAt \in [Types -> 0..MaxPages]
    /\ \A i \in Types :
         /\ failAt[i] <= pages[i]
         /\ ~apis[i].r.Namespaced => (pages[i] = 1 /\ failAt[i] = 0)
    /\ li = 1 /\ wg = 0 /\ mu = 0 /\ out = NilSlice /\ errResult = NilErr
    /\ wpc = [i \in Types |-> "idle"]
    /\ qout = [i \in Types |-> NilSlice]
    /\ next = [i \in Types |-> NoCursor]
    /\ reqs = [i \in Types |-> <<>>]
    /\ qret = [i \in Types |-> [v |-> NilSlice, err |-> NilErr]]
    /\ tmp = [i \in Types |-> NilSlice]
    /\ mpc = "dispatch"
    /\ ret = [out |-> NilSlice, err |-> NilErr]
    /\ runret = "none"
    /\ RIdle /\ DIdle

\* getAllResources, lines 152-154: a cluster-scoped type is skipped.
SkipClusterScoped ==
    /\ mpc = "dispatch" /\ li <= Len(apis)
    /\ ~apis[li].r.Namespaced
    /\ li' = li + 1
    /\ UNCHANGED <<apis, pages, failAt, wg, mu, out, errResult, wpc, qout, next,
                   reqs, qret, tmp, mpc, ret, runret, rvars, dvars>>

\* getAllResources, lines 155-156: wg.Add(1) and the go statement.
Dispatch ==
    /\ mpc = "dispatch" /\ li <= Len(apis)
    /\ apis[li].r.Namespaced
    /\ wg' = wg + 1
    /\ wpc' = [wpc EXCEPT ![li] = "list"]
    /\ li' = li + 1
    /\ UNCHANGED <<apis, pages, failAt, mu, out, errResult, qout, next,
                   reqs, qret, tmp, mpc, ret, runret, rvars, dvars>>

\* getAllResources, line 169: the loop is over, wg.Wait() returns.
Wait ==
    /\ mpc = "dispatch" /\ li > Len(apis)
    /\ WaitReturns
    /\ mpc' = "return"
    /\ UNCHANGED <<apis, pages, failAt, li, wg, mu, out, errResult, wpc, qout, next,
                   reqs, qret, tmp, ret, runret, rvars, dvars>>

\* getAllResources, line 170: return out, errResult.
Return ==
    /\ mpc = "return"
    /\ ret' = [out |-> out, err |-> errResult]
    /\ mpc' = "returned"
    /\ UNCHANGED <<apis, pages, failAt, li, wg, mu, out, errResult, wpc, qout, next,
                   reqs, qret, tmp, runret, rvars, dvars>>

\* run, lines 83-85: the error of getAllResources is returned.
RunError ==
    /\ mpc = "returned" /\ NotNil(ret.err)
    /\ runret' = "error"
    /\ mpc' = "exit"
    /\ UNCHANGED <<apis, pages, failAt, li, wg, mu, out, errResult, wpc, qout, next,
                   reqs, qret, tmp, ret, rvars, dvars>>

\* run, lines 87-93: the directory is built from the returned collection.
RunBuild ==
    /\ mpc = "returned" /\ ~NotNil(ret.err)
    /\ dir' = newObjectDirectory(ret.out)
    /\ objs' = ret.out
    /\ runret' = "nil"
    /\ mpc' = "exit"
    /\ UNCHANGED <<apis, pages, failAt, li, wg, mu, out, errResult, wpc, qout, next,
                   reqs, qret, tmp, ret, rvars, oi, dpc>>

\* queryAPI, lines 182-188: the list request fails, queryAPI returns the error
\* and the goroutine takes the branch of line 159.
ListFail(i) ==
    /\ wpc[i] = "list"
    /\ failAt[i] = Len(reqs[i]) + 1
    /\ reqs' = [reqs EXCEPT ![i] = Append(@, ListOptions(next[i]))]
    /\ qret' = [qret EXCEPT
                  ![i] = ListErrReturn(i, Len(reqs[i]) + 1)]
    /\ wpc' = [wpc EXCEPT ![i] = "branch"]
    /\ UNCHANGED <<apis, pages, failAt, li, wg, mu, out, errResult, qout, next,
                   tmp, mpc, ret, runret, rvars, dvars>>

\* queryAPI, lines 182-196: the list request is answered with a page; the loop
\* goes on while the continue token is not empty, else queryAPI returns out.
ListPage(i) ==
    /\ wpc[i] = "list"
    /\ failAt[i] # Len(reqs[i]) + 1
    /\ PageOf(next[i]) <= pages[i]
    /\ LET p == PageOf(next[i])
           c == Continue(p, pages[i])
           o == AppendItems(qout[i], PageItems(i, p))
       IN  /\ reqs' = [reqs EXCEPT ![i] = Append(@, ListOptions(next[i]))]
           /\ qout' = [qout EXCEPT ![i] = o]
           /\ next' = [next EXCEPT ![i] = c]
           /\ IF c = NoCursor
              THEN /\ qret' = [qret EXCEPT ![i] = [v |-> o, err |-> NilErr]]
                   /\ wpc' = [wpc EXCEPT ![i] = "branch"]
              ELSE UNCHANGED <<qret, wpc>>
    /\ UNCHANGED <<apis, pages, failAt, li, wg, mu, out, errResult,
                   tmp, mpc, ret, runret, rvars, dvars>>

\* getAllResources, line 159: if err != nil.
Branch(i) ==
    /\ wpc[i] = "branch"
    /\ wpc' = [wpc EXCEPT ![i] = IF NotNil(qret[i].err) THEN "seterr" ELSE "lock"]
    /\ UNCHANGED <<apis, pages, failAt, li, wg, mu, out, errResult, qout, next,
                   reqs, qret, tmp, mpc, ret, runret, rvars, dvars>>

\* getAllResources, line 160: errResult = err stores the two words of the
\* interface value one after the other, with no lock held: first the type word.
SetErrTab(i) ==
    /\ wpc[i] = "seterr"
    /\ errResult' = [errResult EXCEPT !.tab = qret[i].err.tab]
    /\ wpc' = [wpc EXCEPT ![i] = "seterr2"]
    /\ UNCHANGED <<apis, pages, failAt, li, wg, mu, out, qout, next,
                   reqs, qret, tmp, mpc, ret, runret, rvars, dvars>>

\* getAllResources, lines 160-161: then the data word, and return.
SetErrData(i) ==
    /\ wpc[i] = "seterr2"
    /\ errResult' = [errResult EXCEPT !.data = qret[i].err.data]
    /\ wpc' = [wpc EXCEPT ![i] = "exit"]
    /\ UNCHANGED <<apis, pages, failAt, li, wg, mu, out, qout, next,
                   reqs, qret, tmp, mpc, ret, runret, rvars, dvars>>

\* getAllResources, line 163: mu.Lock().
Lock(i) ==
    /\ wpc[i] = "lock"
    /\ CanLock(i)
    /\ mu' = i
    /\ wpc' = [wpc EXCEPT ![i] = "load"]
    /\ UNCHANGED <<apis, pages, failAt, li, wg, out, errResult, qout, next,
                   reqs, qret, tmp, mpc, ret, runret, rvars, dvars>>

\* getAllResources, line 164: append loads the slice header of out ...
AppendLoad(i) ==
    /\ wpc[i] = "load"
    /\ tmp' = [tmp EXCEPT ![i] = out]
    /\ wpc' = [wpc EXCEPT ![i] = "store"]
    /\ UNCHANGED <<apis, pages, failAt, li, wg, mu, out, errResult, qout, next,
                   reqs, qret, mpc, ret, runret, rvars, dvars>>

\* ... and stores the grown slice back into out.
AppendStore(i) ==
    /\ wpc[i] = "store"
    /\ out' = tmp[i] \o qret[i].v
    /\ wpc' = [wpc EXCEPT ![i] = "unlock"]
    /\ UNCHANGED <<apis, pages, failAt, li, wg, mu, errResult, qout, next,
                   reqs, qret, tmp, mpc, ret, runret, rvars, dvars>>

\* getAllResources, line 165: mu.Unlock().
Unlock(i) ==
    /\ wpc[i] = "unlock"
    /\ mu' = 0
    /\ wpc' = [wpc EXCEPT ![i] = "exit"]
    /\ UNCHANGED <<apis, pages, failAt, li, wg, out, errResult, qout, next,
                   reqs, qret, tmp, mpc, ret, runret, rvars, dvars>>

\* getAllResources, line 157: the deferred wg.Done(), on either return.
Done(i) ==
    /\ wpc[i] = "exit"
    /\ wg' = wg - 1
    /\ wpc' = [wpc EXCEPT ![i] = "done"]
    /\ UNCHANGED <<apis, pages, failAt, li, mu, out, errResult, qout, next,
                   reqs, qret, tmp, mpc, ret, runret, rvars, dvars>>

NextFetch ==
    \/ SkipClusterScoped
    \/ Dispatch
    \/ Wait
    \/ Return
    \/ RunError
    \/ RunBuild
    \/ \E i \in Types : ListFail(i)
    \/ \E i \in Types : ListPage(i)
    \/ \E i \in Types : Branch(i)
    \/ \E i \in Types : SetErrTab(i)
    \/ \E i \in Types : SetErrData(i)
    \/ \E i \in Types : Lock(i)
    \/ \E i \in Types : AppendLoad(i)
    \/ \E i \in Types : AppendStore(i)
    \/ \E i \in Types : Unlock(i)
    \/ \E i \in Types : Done(i)

SpecFetch == InitFetch /\ [][NextFetch]_vars

\* ------------------------------------------------------------------------
\* Properties of the fleet fetch
\* ------------------------------------------------------------------------
Namespaced(i) == apis[i].r.Namespaced
\* The server fails a list request of the namespaced type i.
FetchFails(i) == Namespaced(i) /\ failAt[i] > 0
\* getAllResources has returned to run.
Returned == mpc \in {"returned", "exit"}
\* queryAPI has returned to goroutine i.
QueryReturned(i) == wpc[i] \notin {"idle", "list"}

RECURSIVE SumLen(_, _)
SumLen(f, S) ==
    IF S = {} THEN 0
    ELSE LET x == CHOOSE y \in S : TRUE IN Len(f[x]) + SumLen(f, S \ {x})

RECURSIVE ConcatPages(_, _)
\* The pages 1..k of type i, concatenated in page order.
ConcatPages(i, k) ==
    IF k = 0 THEN <<>> ELSE ConcatPages(i, k - 1) \o PageItems(i, k)

\* The number of places of the sequence s that hold x.
Count(s, x) == Cardinality({n \in DOMAIN s : s[n] = x})

\* C1: if the fetch of at least one namespaced type fails, getAllResources
\* returns a non-nil error, which is the error of a fetch that failed, and run
\* returns an error without building a directory, in every interleaving.
C1_FailsAsOneUnit ==
    ((\E i \in Types : FetchFails(i)) /\ Returned) =>
        /\ NotNil(ret.err)
        /\ \E i \in Types : FetchFails(i) /\ ret.err.data = qret[i].err.data
        /\ mpc = "exit" => (runret = "error" /\ dir = EmptyDir /\ objs = <<>>)

\* A fetch failed on a later page after another fetch had appended its records
\* to out, and run returned the error with no directory built.
C1_Witness ==
    /\ mpc = "exit" /\ runret = "error" /\ dir = EmptyDir
    /\ \E i \in Types : FetchFails(i) /\ failAt[i] > 1
    /\ NotNil(ret.err)
    /\ Len(out) > 0

Writing(i) == wpc[i] \in {"store", "seterr2"}

\* C3: every write of a goroutine to state shared with the others, its records
\* and its error alike, is made with the mutex held, so that no two goroutines
\* are writing shared state at the same time.
C3_WritesUnderMutex ==
    /\ \A i \in Types : Writing(i) => mu = i
    /\ \A i, j \in Types : (Writing(i) /\ Writing(j)) => i = j

\* C4: getAllResources returns only after every goroutine it dispatched has
\* finished, on its success path or on its error path: from the return on, no
\* goroutine changes the collection or the error, and the directory is built
\* from the collection as the goroutines left it.
C4_FinalJoin ==
    (mpc \in {"return", "returned", "exit"}) =>
        /\ \A i \in Types : wpc[i] = IF Namespaced(i) THEN "done" ELSE "idle"
        /\ wg = 0 /\ mu = 0
        /\ Returned => (ret.out = out /\ ret.err = errResult)
        /\ runret = "nil" => dir = newObjectDirectory(out)

\* getAllResources has returned after joining a goroutine that failed and one
\* that appended its records.
C4_Witness ==
    /\ Returned
    /\ \E i, j \in Types :
         /\ FetchFails(i) /\ wpc[i] = "done"
         /\ Namespaced(j) /\ ~FetchFails(j) /\ wpc[j] = "done" /\ Len(qret[j].v) > 0

\* C5: against a server that answers type i with k pages, queryAPI issues
\* exactly k list requests, the first with the empty continue token and each
\* later one with the token the previous page returned, stops at the first
\* empty token, and returns the items of the k pages in request order.
C5_Pagination ==
    \A i \in Types :
        (QueryReturned(i) /\ ~FetchFails(i)) =>
            /\ Len(reqs[i]) = pages[i]
            /\ reqs[i][1].Continue = NoCursor
            /\ \A n \in 2..Len(reqs[i]) :
                 /\ reqs[i][n].Continue = Continue(n - 1, pages[i])
                 /\ reqs[i][n].Continue # NoCursor
            /\ next[i] = NoCursor
            /\ qret[i].v = ConcatPages(i, pages[i])
            /\ ~NotNil(qret[i].err)

\* A type answered with three pages (tokens C1, C2, then none) has been
\* fetched with three requests, and the three pages are returned in order.
C5_Witness ==
    \E i \in Types :
        /\ QueryReturned(i) /\ ~FetchFails(i) /\ pages[i] = 3
        /\ [n \in DOMAIN reqs[i] |-> reqs[i][n].Continue]
               = <<NoCursor, Cursor(1), Cursor(2)>>
        /\ Len(PageItems(i, 1)) > 0 /\ Len(PageItems(i, 3)) > 0
        /\ qret[i].v = PageItems(i, 1) \o PageItems(i, 2) \o PageItems(i, 3)

\* C6: if a list request of type i fails, on the first page or a later one,
\* queryAPI issues no further request for the type, returns no record and an
\* error that carries the resource type and the underlying error, and no
\* record of the type is ever appended to the merged collection.
C6_AllOrNothing ==
    \A i \in Types :
        FetchFails(i) =>
            /\ Len(reqs[i]) <= failAt[i]
            /\ \A n \in DOMAIN out : out[n].api # i
            /\ \A n \in DOMAIN ret.out : ret.out[n].api # i
            /\ QueryReturned(i) =>
                 /\ Len(reqs[i]) = failAt[i]
                 /\ qret[i].v = NilSlice
                 /\ NotNil(qret[i].err)
                 /\ qret[i].err.data.gvr = GroupVersionResource(apis[i])
                 /\ qret[i].err.data.cause = TransportError(i, failAt[i])

\* The request for the second page of a type failed after a first page with
\* records had been fetched, and the goroutine has finished.
C6_Witness ==
    \E i \in Types :
        /\ FetchFails(i) /\ failAt[i] = 2 /\ Len(PageItems(i, 1)) > 0
        /\ Len(qout[i]) > 0
        /\ wpc[i] = "done"

\* ------------------------------------------------------------------------
\* newObjectDirectory, as the steps of its loop
\* ------------------------------------------------------------------------
MaxObjs == 4

\* The records handed to newObjectDirectory: A owns B and C, B owns D; E is
\* owned by A and by X, which is not among the fetched objects; F names its
\* owner B twice; BEvents is the object B as listed through a second API group
\* that serves it (the same UID in another record).
ObjectUniverse ==
    { Obj("A", <<>>, 1), Obj("B", <<"A">>, 1), Obj("C", <<"A">>, 1),
      Obj("D", <<"B">>, 1), Obj("E", <<"A", "X">>, 1), Obj("F", <<"B", "B">>, 1),
      Obj("B", <<"A">>, 2) }
UIDs == {"A", "B", "C", "D", "E", "F", "X"}

InitDir ==
    /\ objs \in SeqsNoRep(ObjectUniverse, MaxObjs)
    /\ oi = 1 /\ dir = EmptyDir /\ dpc = "loop"
    /\ RIdle /\ FIdle

\* newObjectDirectory, lines 132-140: one iteration of the range loop.
DirLoop ==
    /\ dpc = "loop" /\ oi <= Len(objs)
    /\ dir' = DirStep(dir, objs[oi])
    /\ oi' = oi + 1
    /\ UNCHANGED <<objs, dpc, rvars, fvars>>

\* newObjectDirectory, line 141.
DirReturn ==
    /\ dpc = "loop" /\ oi > Len(objs)
    /\ dpc' = "returned"
    /\ UNCHANGED <<objs, oi, dir, rvars, fvars>>

NextDir ==
    \/ DirLoop
    \/ DirReturn

SpecDir == InitDir /\ [][NextDir]_vars

\* ------------------------------------------------------------------------
\* Properties of the ownership directory
\* ------------------------------------------------------------------------
\* The orders in which the records of s can be passed.
Orders(s) == {[n \in DOMAIN s |-> s[f[n]]] : f \in Permutations(DOMAIN s)}

\* The identities of the records of objs that name x among their owners.
OwnedBy(x) == {o.uid : o \in {r \in Range(objs) : x \in Range(r.owners)}}

ChildrenExact == \A x \in UIDs : childrenOf(dir, x) = OwnedBy(x)

\* No two different records of objs share an identity.
UniqueIdentities ==
    \A m, n \in DOMAIN objs : objs[m].uid = objs[n].uid => objs[m] = objs[n]

\* C10 as stated: for every collection of records and every order, the children
\* of an identity are exactly the records that name it as an owner, and the
\* identity map and the children relation are the same for every permutation.
C10_AnyOrder ==
    dpc = "returned" =>
        /\ ChildrenExact
        /\ \A p \in Orders(objs) : newObjectDirectory(p) = dir

\* C10 amended: the children of an identity are exactly the records that name
\* it as an owner, and the children relation is the same for every permutation;
\* the identity map holds, for each fetched identity, the last record of the
\* input with that identity, and is the same for every permutation when no two
\* different records share an identity.
C10_Ownership ==
    dpc = "returned" =>
        /\ ChildrenExact
        /\ \A p \in Orders(objs) : newObjectDirectory(p).ownership = dir.ownership
        /\ DOMAIN dir.items = {o.uid : o \in Range(objs)}
        /\ \A n \in DOMAIN objs :
             (\A m \in DOMAIN objs : m > n => objs[m].uid # objs[n].uid)
                 => dir.items[objs[n].uid] = objs[n]
        /\ UniqueIdentities => \A p \in Orders(objs) : newObjectDirectory(p) = dir

\* D, C, B, A were passed children first: A has the children B and C, B has D,
\* C has none.
C10_Witness ==
    /\ dpc = "returned"
    /\ objs = <<Obj("D", <<"B">>, 1), Obj("C", <<"A">>, 1),
                Obj("B", <<"A">>, 1), Obj("A", <<>>, 1)>>
    /\ childrenOf(dir, "A") = {"B", "C"}
    /\ childrenOf(dir, "B") = {"D"}
    /\ childrenOf(dir, "C") = {}

====
